---- MODULE Spec2Model ----
(***************************************************************************)
(* Tic-tac-toe against an automated opponent (src/src/main.rs).            *)
(*                                                                         *)
(* The TicTacToe struct is a record [board, player_char, machine_char].    *)
(* A method taking &self is an operator of the struct; a method taking     *)
(* &mut self returns [self |-> the struct on return, ret |-> its result],  *)
(* so that what a call leaves in the board is part of what is checked.     *)
(* Option<Move> is a sequence: << >> for None, <<m>> for Some(m).          *)
(***************************************************************************)
EXTENDS Integers, Sequences, FiniteSets, TLC

VARIABLES
    game,   \* main's `game`: the TicTacToe struct
    pc,     \* where the caller stands: "loop", "machine", "done" in main
            \* ("apply" inside machine_move); "call", "run", "returned" when
            \* one method is called on a given struct
    call,   \* the method called last
    arg,    \* its argument (<< >> when it has none)
    pre,    \* the struct when that method was called
    ret,    \* what it returned
    stack   \* the activations of find_best_move and minimax, outermost
            \* first, where the search is run step by step (<< >> elsewhere)

vars == <<game, pc, call, arg, pre, ret, stack>>

(* The search methods are called on every board with at most this many     *)
(* Empty cells (SpecSearch); the driver loop (Spec) plays whole games.     *)
MaxEmpty == 4

---------------------------------------------------------------------------
(* enum BoardChar *)
O == "O"
X == "X"
Empty == "Empty"
BoardChar == {O, X, Empty}

to_opposite(c) ==
    CASE c = Empty -> Empty
      [] c = O -> X
      [] c = X -> O

(* What read_input::<BoardChar> can return: from_str yields X or O only. *)
SymbolChoice == {X, O}

(* struct Move; FromStr for Move yields row and col in 0..2 only. *)
Move(row, col) == [row |-> row, col |-> col]
Moves == {Move(row, col) : row \in 0..2, col \in 0..2}

None == << >>
Some(m) == <<m>>

(* type Board = [[BoardChar; 3]; 3] *)
Board == [0..2 -> [0..2 -> BoardChar]]

new(player_char) ==
    [board |-> [row \in 0..2 |-> [col \in 0..2 |-> Empty]],
     player_char |-> player_char,
     machine_char |-> to_opposite(player_char)]

(* has_moves with the row loop one short. *)
has_moves_two_rows(self) ==
    \E row \in 0..1 : \E col \in 0..2 : self.board[row][col] = Empty

has_moves(self) ==
    \E row \in 0..2 : \E col \in 0..2 : self.board[row][col] = Empty

(* evaluate with the second diagonal ending in the wrong corner. *)
evaluate_wrong_corner(self, c) ==
    \/ \E row \in 0..2 :
          /\ self.board[row][0] = c
          /\ self.board[row][0] = self.board[row][1]
          /\ self.board[row][1] = self.board[row][2]
    \/ \E col \in 0..2 :
          /\ self.board[0][col] = c
          /\ self.board[0][col] = self.board[1][col]
          /\ self.board[1][col] = self.board[2][col]
    \/ /\ self.board[0][0] = c
       /\ self.board[0][0] = self.board[1][1]
       /\ self.board[1][1] = self.board[2][2]
    \/ /\ self.board[0][2] = c
       /\ self.board[0][2] = self.board[1][1]
       /\ self.board[1][1] = self.board[2][2]

evaluate(self, c) ==
    \/ \E row \in 0..2 :
          /\ self.board[row][0] = c
          /\ self.board[row][0] = self.board[row][1]
          /\ self.board[row][1] = self.board[row][2]
    \/ \E col \in 0..2 :
          /\ self.board[0][col] = c
          /\ self.board[0][col] = self.board[1][col]
          /\ self.board[1][col] = self.board[2][col]
    \/ /\ self.board[0][0] = c
       /\ self.board[0][0] = self.board[1][1]
       /\ self.board[1][1] = self.board[2][2]
    \/ /\ self.board[0][2] = c
       /\ self.board[0][2] = self.board[1][1]
       /\ self.board[1][1] = self.board[2][0]

player_won(self) == evaluate(self, self.player_char)

machine_won(self) == evaluate(self, self.machine_char)

is_game_over(self) ==
    ~has_moves(self) \/ player_won(self) \/ machine_won(self)

(* do_move without the test of the target cell. *)
do_move_unchecked(self, m, c) ==
    [self |-> [self EXCEPT !.board[m.row][m.col] = c], ret |-> TRUE]

(* do_move writing the cell with row and column exchanged. *)
do_move_transposed(self, m, c) ==
    IF self.board[m.row][m.col] = Empty
    THEN [self |-> [self EXCEPT !.board[m.col][m.row] = c], ret |-> TRUE]
    ELSE [self |-> self, ret |-> FALSE]

do_move(self, m, c) ==
    IF self.board[m.row][m.col] = Empty
    THEN [self |-> [self EXCEPT !.board[m.row][m.col] = c], ret |-> TRUE]
    ELSE [self |-> self, ret |-> FALSE]

player_move(self, m) == do_move(self, m, self.player_char)

---------------------------------------------------------------------------
(* The search.  The board is one object written and restored in place, so  *)
(* each loop carries the struct from one iteration to the next.            *)

max(a, b) == IF b > a THEN b ELSE a
min(a, b) == IF b < a THEN b ELSE a

(* The move made with row and column exchanged. *)
make_move_transposed(self, i, j, c) == [self EXCEPT !.board[j][i] = c]

(* minimax's "make the move": self.board[i][j] = c *)
make_move(self, i, j, c) == [self EXCEPT !.board[i][j] = c]

(* The undo left out. *)
undo_move_skipped(self, i, j) == self

(* minimax's "undo the move": self.board[i][j] = BoardChar::Empty *)
undo_move(self, i, j) == [self EXCEPT !.board[i][j] = Empty]

(* The two starting values exchanged. *)
minimax_start_exchanged(self, c) == IF c = self.machine_char THEN 10 ELSE -10

(* minimax's `best` before its loop *)
minimax_start(self, c) == IF c = self.machine_char THEN -10 ELSE 10

(* The maximum taken for the minimizer too. *)
minimax_choose_max_only(self, c, best, next_best) == max(best, next_best)

(* minimax's update of `best` *)
minimax_choose(self, c, best, next_best) ==
    IF c = self.machine_char THEN max(best, next_best) ELSE min(best, next_best)

(* The nested loops `for i in 0..3 { for j in 0..3 {` visit the cells in    *)
(* row-major order; cell number k in 0..8 is (k / 3, k % 3), and 9 is the  *)
(* end of the scan.  A cell that is not Empty is passed over with no       *)
(* effect, so from cell k the scan goes on at the first Empty cell at or   *)
(* after k of the board as it is then.                                     *)
row_of(k) == k \div 3
col_of(k) == k % 3

next_empty(self, k) ==
    IF \E n \in k..8 : self.board[row_of(n)][col_of(n)] = Empty
    THEN CHOOSE n \in k..8 :
            /\ self.board[row_of(n)][col_of(n)] = Empty
            /\ \A q \in k..(n - 1) : self.board[row_of(q)][col_of(q)] # Empty
    ELSE 9

RECURSIVE minimax(_, _)
RECURSIVE minimax_loop(_, _, _, _)

(* The loops of minimax from cell k on, with `best` so far. *)
minimax_loop(self, c, best, k) ==
    LET n == next_empty(self, k)
    IN  IF n = 9 THEN [self |-> self, ret |-> best]
        ELSE LET r == minimax(make_move(self, row_of(n), col_of(n), c),
                              to_opposite(c))
             IN  minimax_loop(undo_move(r.self, row_of(n), col_of(n)), c,
                              minimax_choose(r.self, c, best, r.ret), n + 1)

minimax(self, c) ==
    IF machine_won(self) THEN [self |-> self, ret |-> 1]
    ELSE IF player_won(self) THEN [self |-> self, ret |-> -1]
    ELSE IF ~has_moves(self) THEN [self |-> self, ret |-> 0]
    ELSE minimax_loop(self, c, minimax_start(self, c), 0)

(* The test with >= for >. *)
is_better_or_equal(move_val, best_val) == move_val >= best_val

(* find_best_move's test for replacing best_move *)
is_better(move_val, best_val) == move_val > best_val

RECURSIVE find_best_move_loop(_, _, _, _)

(* The loops of find_best_move from cell k on. *)
find_best_move_loop(self, best_val, best_move, k) ==
    LET n == next_empty(self, k)
    IN  IF n = 9 THEN [self |-> self, ret |-> best_move]
        ELSE LET s == [self EXCEPT !.board[row_of(n)][col_of(n)] = self.machine_char]
                 r == minimax(s, s.player_char)
                 move_val == r.ret
                 u == [r.self EXCEPT !.board[row_of(n)][col_of(n)] = Empty]
             IN  IF is_better(move_val, best_val)
                 THEN find_best_move_loop(u, move_val,
                                          Some(Move(row_of(n), col_of(n))), n + 1)
                 ELSE find_best_move_loop(u, best_val, best_move, n + 1)

(* best_val starting at the lowest score instead of below it. *)
find_best_move_from_lowest(self) == find_best_move_loop(self, -1, None, 0)

find_best_move(self) == find_best_move_loop(self, -10, None, 0)

machine_move(self) ==
    LET f == find_best_move(self)
    IN  IF f.ret # None
        THEN [self |-> do_move(f.self, f.ret[1], f.self.machine_char).self,
              ret |-> f.ret]
        ELSE [self |-> f.self, ret |-> None]

(* What main prints after the loop. *)
result(self) ==
    IF player_won(self) THEN "Congratulations, you won!"
    ELSE IF machine_won(self) THEN "Sorry, but you lost"
    ELSE "Draw"

---------------------------------------------------------------------------
(* main: the driver loop.                                                  *)

Init ==
    \E bc \in SymbolChoice :
        /\ game = new(bc)
        /\ pc = "loop"
        /\ call = "new"
        /\ arg = <<bc>>
        /\ pre = new(bc)
        /\ ret = << >>
        /\ stack = << >>

(* The prompt without the `continue` after a rejected move. *)
PlayerTurnNoContinue ==
    /\ pc = "loop"
    /\ ~is_game_over(game)
    /\ \E m \in Moves :
          LET r == player_move(game, m)
          IN  /\ game' = r.self
              /\ ret' = r.ret
              /\ arg' = <<m>>
              /\ pc' = "machine"
    /\ call' = "player_move"
    /\ pre' = game
    /\ UNCHANGED stack

(* One prompt: read_input yields any move; player_move applies it.  A      *)
(* rejected move goes back to the loop guard (continue).                   *)
PlayerTurn ==
    /\ pc = "loop"
    /\ ~is_game_over(game)
    /\ \E m \in Moves :
          LET r == player_move(game, m)
          IN  /\ game' = r.self
              /\ ret' = r.ret
              /\ arg' = <<m>>
              /\ pc' = IF ~r.ret THEN "loop" ELSE "machine"
    /\ call' = "player_move"
    /\ pre' = game
    /\ UNCHANGED stack

MachineTurn ==
    /\ pc = "machine"
    /\ LET r == machine_move(game)
       IN  /\ game' = r.self
           /\ ret' = r.ret
    /\ pc' = "loop"
    /\ call' = "machine_move"
    /\ arg' = << >>
    /\ pre' = game
    /\ UNCHANGED stack

(* The loop guard fails: main prints the board and the result. *)
GameOver ==
    /\ pc = "loop"
    /\ is_game_over(game)
    /\ pc' = "done"
    /\ call' = "result"
    /\ arg' = << >>
    /\ pre' = game
    /\ ret' = result(game)
    /\ UNCHANGED <<game, stack>>

Next == PlayerTurn \/ MachineTurn \/ GameOver

Spec == Init /\ [][Next]_vars

---------------------------------------------------------------------------
(* What the claims are stated with, written without the program's code.    *)

Cells == (0..2) \X (0..2)

Lines ==
    {{<<row, col>> : col \in 0..2} : row \in 0..2}
    \cup {{<<row, col>> : row \in 0..2} : col \in 0..2}
    \cup {{<<0, 0>>, <<1, 1>>, <<2, 2>>}, {<<0, 2>>, <<1, 1>>, <<2, 0>>}}

HasLine(b, mark) == \E line \in Lines : \A x \in line : b[x[1]][x[2]] = mark

NoLine(b) == ~HasLine(b, X) /\ ~HasLine(b, O)

Full(b) == \A x \in Cells : b[x[1]][x[2]] # Empty

(* The Empty cells of a board, by their number in scan order. *)
EmptyCells(b) == {k \in 0..8 : b[k \div 3][k % 3] = Empty}

Returned(name) == pc = "returned" /\ call = name

---------------------------------------------------------------------------
(* One method called on a struct that may hold any board.                  *)

Structs ==
    {[board |-> b, player_char |-> bc, machine_char |-> to_opposite(bc)] :
        b \in Board, bc \in SymbolChoice}

AtCall(s) ==
    /\ game = s
    /\ pc = "call"
    /\ call = "none"
    /\ arg = << >>
    /\ pre = s
    /\ ret = << >>
    /\ stack = << >>

(* A &mut self method returns: r is [self, ret]. *)
Returns(name, a, r) ==
    /\ pc = "call"
    /\ pc' = "returned"
    /\ call' = name
    /\ arg' = a
    /\ pre' = game
    /\ game' = r.self
    /\ ret' = r.ret
    /\ UNCHANGED stack

(* A &self method returns v. *)
Answers(name, a, v) == Returns(name, a, [self |-> game, ret |-> v])

InitBoard == \E s \in Structs : AtCall(s)

CallDoMove ==
    \E m \in Moves, c \in BoardChar :
        Returns("do_move", <<m, c>>, do_move(game, m, c))

CallPlayerMove == \E m \in Moves : Returns("player_move", <<m>>, player_move(game, m))

CallEvaluate == \E c \in BoardChar : Answers("evaluate", <<c>>, evaluate(game, c))

CallPlayerWon == Answers("player_won", << >>, player_won(game))

CallMachineWon == Answers("machine_won", << >>, machine_won(game))

CallHasMoves == Answers("has_moves", << >>, has_moves(game))

CallIsGameOver == Answers("is_game_over", << >>, is_game_over(game))

CallResult == Answers("result", << >>, result(game))

NextBoard ==
    \/ CallDoMove
    \/ CallPlayerMove
    \/ CallEvaluate
    \/ CallPlayerWon
    \/ CallMachineWon
    \/ CallHasMoves
    \/ CallIsGameOver
    \/ CallResult

SpecBoard == InitBoard /\ [][NextBoard]_vars

(* The search methods, on the boards with at most MaxEmpty Empty cells. *)
InitSearch ==
    \E s \in Structs :
        Cardinality(EmptyCells(s.board)) <= MaxEmpty /\ AtCall(s)

CallMinimax == \E c \in SymbolChoice : Returns("minimax", <<c>>, minimax(game, c))

CallFindBestMove == Returns("find_best_move", << >>, find_best_move(game))

CallMachineMove == Returns("machine_move", << >>, machine_move(game))

NextSearch == CallMinimax \/ CallFindBestMove \/ CallMachineMove

SpecSearch == InitSearch /\ [][NextSearch]_vars

---------------------------------------------------------------------------
(* C3: on any board, do_move and player_move with an in-range move whose   *)
(* target cell is not Empty return false and leave all 9 cells as they     *)
(* were.                                                                   *)
C3_RejectionLeavesBoard ==
    (/\ Returned("do_move") \/ Returned("player_move")
     /\ pre.board[arg[1].row][arg[1].col] # Empty)
    => /\ ret = FALSE
       /\ \A x \in Cells : game.board[x[1]][x[2]] = pre.board[x[1]][x[2]]

C3_Witness ==
    /\ Returned("player_move")
    /\ pre.board[arg[1].row][arg[1].col] = pre.machine_char
    /\ ret = FALSE
    /\ Cardinality({x \in Cells : pre.board[x[1]][x[2]] = Empty}) = 4

(* C4: on any board, do_move with mark c and an in-range move whose target *)
(* cell is Empty returns true, the target cell becomes c, and the other 8  *)
(* cells, player_char and machine_char are as they were.                   *)
C4_AcceptedWritesOneCell ==
    (/\ Returned("do_move")
     /\ pre.board[arg[1].row][arg[1].col] = Empty)
    => /\ ret = TRUE
       /\ game.board[arg[1].row][arg[1].col] = arg[2]
       /\ \A x \in Cells \ {<<arg[1].row, arg[1].col>>} :
              game.board[x[1]][x[2]] = pre.board[x[1]][x[2]]
       /\ game.player_char = pre.player_char
       /\ game.machine_char = pre.machine_char

C4_Witness ==
    /\ Returned("do_move")
    /\ arg = <<Move(0, 2), X>>
    /\ pre.board[0][2] = Empty
    /\ pre.board[2][0] = O
    /\ game.board[0][2] = X
    /\ ret = TRUE

(* C7: on any board and for each mark P of X and O, evaluate(P) is true    *)
(* exactly when one of the 8 lines has its three cells equal to P; so are  *)
(* player_won for the human's mark and machine_won for the machine's.      *)
C7_EvaluatorCorrect ==
    /\ (Returned("evaluate") /\ arg[1] \in {X, O})
          => (ret <=> HasLine(pre.board, arg[1]))
    /\ Returned("player_won") => (ret <=> HasLine(pre.board, pre.player_char))
    /\ Returned("machine_won") => (ret <=> HasLine(pre.board, pre.machine_char))

C7_Witness ==
    /\ Returned("evaluate")
    /\ arg = <<O>>
    /\ \A x \in {<<0, 2>>, <<1, 1>>, <<2, 0>>} : pre.board[x[1]][x[2]] = O
    /\ \A x \in Cells \ {<<0, 2>>, <<1, 1>>, <<2, 0>>} : pre.board[x[1]][x[2]] # O
    /\ ret = TRUE

(* C8: on any board with no completed line of either mark, is_game_over is *)
(* false if some cell is Empty; if all 9 cells are occupied it is true,    *)
(* player_won and machine_won are false and main reports a draw.           *)
C8_DrawAndOngoing ==
    NoLine(pre.board) =>
       /\ Returned("is_game_over") => (ret <=> Full(pre.board))
       /\ (Returned("player_won") /\ Full(pre.board)) => ret = FALSE
       /\ (Returned("machine_won") /\ Full(pre.board)) => ret = FALSE
       /\ (Returned("result") /\ Full(pre.board)) => ret = "Draw"

C8_Witness ==
    /\ Returned("is_game_over")
    /\ NoLine(pre.board)
    /\ ret = FALSE
    /\ \A x \in Cells : pre.board[x[1]][x[2]] = Empty <=> x = <<2, 2>>

---------------------------------------------------------------------------
(* The score find_best_move gives each Empty cell of struct s: minimax of  *)
(* the board with the machine's mark put there, the human to move.         *)
CellScores(s) ==
    {<<k, minimax([s EXCEPT !.board[k \div 3][k % 3] = s.machine_char],
                  s.player_char).ret>> : k \in EmptyCells(s.board)}

(* The first cell in scan order among those of the highest score. *)
FirstBest(scores) ==
    LET best == {p \in scores : \A q \in scores : q[2] <= p[2]}
    IN  CHOOSE p \in best : \A q \in best : p[1] <= q[1]

(* C2: on any board, find_best_move returns with the board cell for cell   *)
(* as it was at the call, and so does minimax for either mover; the boards *)
(* of the recursive calls are among the boards minimax is called on here.  *)
C2_SearchInvariance ==
    (Returned("find_best_move") \/ Returned("minimax"))
    => \A x \in Cells : game.board[x[1]][x[2]] = pre.board[x[1]][x[2]]

C2_Witness ==
    /\ Returned("find_best_move")
    /\ NoLine(pre.board)
    /\ Cardinality(EmptyCells(pre.board)) = 3
    /\ ret # None
    /\ game.board = pre.board

(* C5: on any board with an Empty cell, find_best_move returns the first   *)
(* cell in row-major order among the Empty cells whose minimax score is    *)
(* the highest of all Empty cells.                                         *)
C5_TieBreak ==
    (Returned("find_best_move") /\ EmptyCells(pre.board) # {})
    => LET k == FirstBest(CellScores(pre))[1]
       IN  ret = Some(Move(k \div 3, k % 3))

(* Two cells share the highest score and the earlier one is returned. *)
C5_Witness ==
    /\ Returned("find_best_move")
    /\ Cardinality(EmptyCells(pre.board)) >= 3
    /\ LET scores == CellScores(pre)
           first == FirstBest(scores)
       IN  /\ \E p \in scores : p[1] > first[1] /\ p[2] = first[2]
           /\ \E p \in scores : p[1] < first[1] /\ p[2] < first[2]
           /\ ret = Some(Move(first[1] \div 3, first[1] % 3))

(* C9: find_best_move returns None exactly when the board has no Empty     *)
(* cell, and otherwise a cell that is Empty; when it returns None,         *)
(* machine_move returns None and leaves the board as it was.               *)
C9_NoMoveAvailable ==
    /\ Returned("find_best_move") =>
          /\ ret = None <=> EmptyCells(pre.board) = {}
          /\ ret # None =>
                 /\ Len(ret) = 1
                 /\ ret[1] \in Moves
                 /\ pre.board[ret[1].row][ret[1].col] = Empty
    /\ (Returned("machine_move") /\ find_best_move(pre).ret = None) =>
          /\ ret = None
          /\ \A x \in Cells : game.board[x[1]][x[2]] = pre.board[x[1]][x[2]]

C9_Witness ==
    /\ Returned("machine_move")
    /\ Full(pre.board)
    /\ ret = None
    /\ game.board = pre.board

---------------------------------------------------------------------------
(* The value of a position for the machine, by the rules of the game.      *)
RECURSIVE GameValue(_, _, _, _)
GameValue(b, mover, human, machine) ==
    IF HasLine(b, machine) THEN 1
    ELSE IF HasLine(b, human) THEN -1
    ELSE IF Full(b) THEN 0
    ELSE LET other == IF mover = machine THEN human ELSE machine
             values == {GameValue([b EXCEPT ![k \div 3][k % 3] = mover],
                                  other, human, machine) : k \in EmptyCells(b)}
         IN  IF mover = machine
             THEN CHOOSE v \in values : \A w \in values : w <= v
             ELSE CHOOSE v \in values : \A w \in values : v <= w

(* Some line holds two of mark and an Empty cell. *)
Threat(b, mark) ==
    \E line \in Lines : \E x \in line :
        /\ b[x[1]][x[2]] = Empty
        /\ \A y \in line \ {x} : b[y[1]][y[2]] = mark

(* C1: in every game through the driver loop, whichever symbol the human   *)
(* chose and whatever cells the human names, no board has a completed line *)
(* of the human's mark, and player_won() is false.                         *)
C1_Unbeatable ==
    /\ ~HasLine(game.board, game.player_char)
    /\ ~player_won(game)

(* The human threatened a line and the machine has moved. *)
C1_Witness ==
    /\ pc = "loop"
    /\ call = "machine_move"
    /\ Threat(pre.board, pre.player_char)
    /\ ~Threat(pre.board, pre.machine_char)
    /\ ret # None
    /\ ~HasLine(game.board, game.player_char)

(* C6: when machine_move is called in the driver loop on a board with no   *)
(* completed line and an Empty cell, the minimax score of the cell it      *)
(* takes from find_best_move is the value of the position for the machine. *)
C6_Optimality ==
    (/\ pc = "loop"
     /\ call = "machine_move"
     /\ NoLine(pre.board)
     /\ ~Full(pre.board))
    => /\ ret # None
       /\ LET m == ret[1]
              s == [pre EXCEPT !.board[m.row][m.col] = pre.machine_char]
          IN  minimax(s, pre.player_char).ret =
                 GameValue(pre.board, pre.machine_char, pre.player_char,
                           pre.machine_char)

(* The machine has moved in a position it wins. *)
C6_Witness ==
    /\ pc = "loop"
    /\ call = "machine_move"
    /\ NoLine(pre.board)
    /\ ret # None
    /\ ~Threat(pre.board, pre.machine_char)
    /\ GameValue(pre.board, pre.machine_char, pre.player_char, pre.machine_char) = 1

(* C10: in the driver loop a rejected player_move is followed by the next  *)
(* prompt on the same board, and machine_move is called only as the step   *)
(* after a player_move that returned true.                                 *)
C10_RejectedGivesNoTurn ==
    [][/\ (call' = "player_move" /\ ret' = FALSE) => (pc' = "loop" /\ game' = game)
       /\ call' = "machine_move" => (call = "player_move" /\ ret = TRUE)]_vars

C10_Witness ==
    /\ pc = "loop"
    /\ call = "player_move"
    /\ ret = FALSE
    /\ game = pre
    /\ Cardinality(EmptyCells(game.board)) = 5

---------------------------------------------------------------------------
(* Given positions with the machine to move (SpecScenario: the two boards  *)
(* with two marks in a row; SpecEmptyBoard: the empty board), played on    *)
(* from there.  The machine's turn is taken in machine_move's two steps:   *)
(* find_best_move, then do_move of the move it returned.                   *)

EmptyBoard == [row \in 0..2 |-> [col \in 0..2 |-> Empty]]

(* The human's mark on (1,0) and (1,1), nothing else. *)
BlockBoard(human) ==
    [EmptyBoard EXCEPT ![1][0] = human, ![1][1] = human]

(* The machine's mark on (0,0) and (0,1), nothing else. *)
WinBoard(machine) ==
    [EmptyBoard EXCEPT ![0][0] = machine, ![0][1] = machine]

(* The machine is to move on board b of struct s. *)
MachineToMove(s) ==
    /\ game = s
    /\ pc = "machine"
    /\ call = "none"
    /\ arg = << >>
    /\ pre = s
    /\ ret = << >>
    /\ stack = << >>

InitScenario ==
    \E bc \in SymbolChoice :
        \E b \in {BlockBoard(bc), WinBoard(to_opposite(bc))} :
            MachineToMove([board |-> b, player_char |-> bc,
                           machine_char |-> to_opposite(bc)])

InitEmptyBoard == \E bc \in SymbolChoice : MachineToMove(new(bc))

(* if let Some(m) = self.find_best_move() *)
ScenarioFindBestMove ==
    /\ pc = "machine"
    /\ LET r == find_best_move(game)
       IN  /\ game' = r.self
           /\ ret' = r.ret
    /\ pc' = "apply"
    /\ call' = "find_best_move"
    /\ arg' = << >>
    /\ pre' = game
    /\ UNCHANGED stack

(* self.do_move(&m, self.machine_char); return Some(m) -- or None *)
ScenarioApplyMove ==
    /\ pc = "apply"
    /\ game' = IF ret # None
               THEN do_move(game, ret[1], game.machine_char).self
               ELSE game
    /\ pc' = "loop"
    /\ call' = "machine_move"
    /\ UNCHANGED <<arg, pre, ret, stack>>

NextScenario ==
    \/ ScenarioFindBestMove
    \/ ScenarioApplyMove
    \/ PlayerTurn
    \/ GameOver

SpecScenario == InitScenario /\ [][NextScenario]_vars

SpecEmptyBoard == InitEmptyBoard /\ [][NextScenario]_vars

(* find_best_move has returned on the board b. *)
FoundOn(b) == pc = "apply" /\ call = "find_best_move" /\ pre.board = b

(* The minimax score find_best_move gives cell (row, col) of struct s. *)
ScoreOf(s, row, col) ==
    minimax([s EXCEPT !.board[row][col] = s.machine_char], s.player_char).ret

---------------------------------------------------------------------------
(* C11 as stated: on the board with the human's mark on (1,0) and (1,1)    *)
(* and nothing else, the machine to move, find_best_move returns (1,2).    *)
C11_BlockScenario ==
    FoundOn(BlockBoard(pre.player_char)) => ret = Some(Move(1, 2))

(* C11 as amended: on that board every Empty cell, (1,2) included, has the *)
(* minimax score -1, and find_best_move returns the first Empty cell in    *)
(* scan order, (0,0).                                                      *)
C11_BlockScenarioLost ==
    FoundOn(BlockBoard(pre.player_char)) =>
       /\ ret = Some(Move(0, 0))
       /\ \A x \in Cells :
              pre.board[x[1]][x[2]] = Empty => ScoreOf(pre, x[1], x[2]) = -1

C11_Witness ==
    /\ FoundOn(BlockBoard(pre.player_char))
    /\ game.board = BlockBoard(game.player_char)
    /\ ret = Some(Move(0, 0))

(* C12: on the board with the machine's mark on (0,0) and (0,1) and        *)
(* nothing else, the machine to move, find_best_move returns (0,2) and the *)
(* minimax score of that cell is +1.                                       *)
C12_WinScenario ==
    FoundOn(WinBoard(pre.machine_char)) =>
       /\ ret = Some(Move(0, 2))
       /\ ScoreOf(pre, 0, 2) = 1

C12_Witness ==
    /\ FoundOn(WinBoard(pre.machine_char))
    /\ game.board = WinBoard(game.machine_char)
    /\ ret = Some(Move(0, 2))

(* C13: on the empty board, the machine to move, find_best_move returns a  *)
(* corner or the center, and the minimax score of the cell it returns is 0.*)
C13_EmptyBoardScenario ==
    FoundOn(EmptyBoard) =>
       /\ ret \in {Some(Move(0, 0)), Some(Move(0, 2)), Some(Move(1, 1)),
                   Some(Move(2, 0)), Some(Move(2, 2))}
       /\ ScoreOf(pre, ret[1].row, ret[1].col) = 0

C13_Witness ==
    /\ FoundOn(EmptyBoard)
    /\ game.board = EmptyBoard
    /\ Len(ret) = 1
    /\ ret[1] \in Moves


---------------------------------------------------------------------------
(* The search run one step at a time, with its activations on a stack.     *)
(* A frame is one activation of find_best_move or minimax: the mark c it   *)
(* places, its best (best_val) and move (best_move) so far, the cell k its *)
(* scan stands at, and the board `at` it was called on.  Only the last     *)
(* frame runs; each frame below it waits at cell k for the call it made.   *)

(* The searches stepped through start on the boards with at most this many *)
(* Empty cells.                                                            *)
MaxStackEmpty == 3

Frame(fn, c, best, move, k, at, pos) ==
    [fn |-> fn, c |-> c, best |-> best, move |-> move, k |-> k, at |-> at,
     pos |-> pos]

Top == stack[Len(stack)]

Below == SubSeq(stack, 1, Len(stack) - 1)

InitStack ==
    \E s \in Structs :
        Cardinality(EmptyCells(s.board)) <= MaxStackEmpty /\ AtCall(s)

(* find_best_move is entered: best_val = -10, best_move = None *)
EnterFindBestMove ==
    /\ pc = "call"
    /\ stack' = <<Frame("find_best_move", game.machine_char, -10, None, 0,
                        game.board, "scan")>>
    /\ pc' = "run"
    /\ call' = "find_best_move"
    /\ arg' = << >>
    /\ pre' = game
    /\ UNCHANGED <<game, ret>>

(* minimax(cur_char) is entered from outside *)
EnterMinimax ==
    /\ pc = "call"
    /\ \E c \in SymbolChoice :
          /\ stack' = <<Frame("minimax", c, 0, None, 0, game.board, "enter")>>
          /\ arg' = <<c>>
    /\ pc' = "run"
    /\ call' = "minimax"
    /\ pre' = game
    /\ UNCHANGED <<game, ret>>

(* The last frame returns v.  Its caller, if there is one, takes the value *)
(* (minimax: best = max or min; find_best_move: the test against best_val),*)
(* undoes its move and goes on to the next cell.                           *)
Return(v) ==
    IF Len(stack) = 1
    THEN /\ stack' = << >>
         /\ pc' = "returned"
         /\ ret' = v
         /\ UNCHANGED <<game, call, arg, pre>>
    ELSE LET f == stack[Len(stack) - 1]
             i == row_of(f.k)
             j == col_of(f.k)
             g == IF f.fn = "minimax"
                  THEN [f EXCEPT !.best = minimax_choose(game, f.c, f.best, v),
                                 !.k = f.k + 1]
                  ELSE IF is_better(v, f.best)
                       THEN [f EXCEPT !.best = v, !.move = Some(Move(i, j)),
                                      !.k = f.k + 1]
                       ELSE [f EXCEPT !.k = f.k + 1]
         IN  /\ stack' = [Below EXCEPT ![Len(stack) - 1] = g]
             /\ game' = IF f.fn = "minimax" THEN undo_move(game, i, j)
                        ELSE [game EXCEPT !.board[i][j] = Empty]
             /\ UNCHANGED <<pc, call, arg, pre, ret>>

(* minimax's tests before its loop, and `best` set for the loop *)
MinimaxEnter ==
    /\ pc = "run"
    /\ Top.fn = "minimax"
    /\ Top.pos = "enter"
    /\ IF machine_won(game) THEN Return(1)
       ELSE IF player_won(game) THEN Return(-1)
       ELSE IF ~has_moves(game) THEN Return(0)
       ELSE /\ stack' = [stack EXCEPT ![Len(stack)].best =
                                          minimax_start(game, Top.c),
                                      ![Len(stack)].pos = "scan"]
            /\ UNCHANGED <<game, pc, call, arg, pre, ret>>

(* minimax's loop: the next Empty cell is marked and minimax is called for *)
(* the other mark; after the last cell `best` is returned.                 *)
MinimaxScan ==
    /\ pc = "run"
    /\ Top.fn = "minimax"
    /\ Top.pos = "scan"
    /\ LET n == next_empty(game, Top.k)
       IN  IF n = 9 THEN Return(Top.best)
           ELSE LET s == make_move(game, row_of(n), col_of(n), Top.c)
                IN  /\ game' = s
                    /\ stack' = Append([stack EXCEPT ![Len(stack)].k = n],
                                       Frame("minimax", to_opposite(Top.c), 0,
                                             None, 0, s.board, "enter"))
                    /\ UNCHANGED <<pc, call, arg, pre, ret>>

(* find_best_move's loop: the next Empty cell gets the machine's mark and  *)
(* minimax is called for the human's; after the last cell best_move is     *)
(* returned.                                                               *)
FindBestMoveScan ==
    /\ pc = "run"
    /\ Top.fn = "find_best_move"
    /\ LET n == next_empty(game, Top.k)
       IN  IF n = 9 THEN Return(Top.move)
           ELSE LET s == [game EXCEPT !.board[row_of(n)][col_of(n)] =
                                          game.machine_char]
                IN  /\ game' = s
                    /\ stack' = Append([stack EXCEPT ![Len(stack)].k = n],
                                       Frame("minimax", s.player_char, 0,
                                             None, 0, s.board, "enter"))
                    /\ UNCHANGED <<pc, call, arg, pre, ret>>

NextStack ==
    \/ EnterFindBestMove
    \/ EnterMinimax
    \/ MinimaxEnter
    \/ MinimaxScan
    \/ FindBestMoveScan

(* The program is sequential: a search that can take a step takes it. *)
SpecStack == InitStack /\ [][NextStack]_vars /\ WF_vars(NextStack)

(* The search run in steps returns what the recursive operators return,   *)
(* on the board it was called on.                                          *)
StackAgrees ==
    pc = "returned" =>
        /\ game = pre
        /\ call = "minimax" => ret = minimax(pre, arg[1]).ret
        /\ call = "find_best_move" => ret = find_best_move(pre).ret

Occupied(b) == 9 - Cardinality(EmptyCells(b))

(* The calls nested in the outermost one. *)
NestingDepth == Len(stack) - 1

(* C14: every call of find_best_move and minimax terminates on every board;*)
(* each recursive minimax call runs on a board with exactly one more       *)
(* occupied cell than its caller's board, so along any chain of nested     *)
(* calls no board repeats and the nesting depth never exceeds the number   *)
(* of Empty cells at the start of the search (at most 9).                  *)
C14_Chain ==
    pc = "run" =>
       /\ stack[1].at = pre.board
       /\ \A n \in 2..Len(stack) :
              /\ stack[n].fn = "minimax"
              /\ Occupied(stack[n].at) = Occupied(stack[n - 1].at) + 1
       /\ \A m, n \in 1..Len(stack) : m # n => stack[m].at # stack[n].at
       /\ NestingDepth <= Cardinality(EmptyCells(pre.board))
       /\ NestingDepth <= 9

C14_SearchTerminates == []C14_Chain /\ <>(pc = "returned")

C14_Witness ==
    /\ pc = "run"
    /\ call = "find_best_move"
    /\ Cardinality(EmptyCells(pre.board)) = 3
    /\ NestingDepth = 3
    /\ Full(game.board)

---------------------------------------------------------------------------
(* Play through the driver loop, move by move.                             *)

Count(b, mark) == Cardinality({x \in Cells : b[x[1]][x[2]] = mark})

(* machine_move has just returned to the loop. *)
MachineMoved == pc = "loop" /\ call = "machine_move"

(* C15: in any game through the driver loop, player_move and machine_move  *)
(* only ever change a cell from Empty to a mark, and a cell that holds a   *)
(* mark holds the same mark in every later state.                          *)
C15_ClaimedOnce ==
    [][\A x \in Cells :
          LET before == game.board[x[1]][x[2]]
              after == game'.board[x[1]][x[2]]
          IN  /\ before # Empty => after = before
              /\ after # before =>
                     after = IF call' = "player_move" THEN game.player_char
                             ELSE game.machine_char]_vars

(* The machine has placed its fourth mark on an Empty cell. *)
C15_Witness ==
    /\ MachineMoved
    /\ ret # None
    /\ pre.board[ret[1].row][ret[1].col] = Empty
    /\ game.board[ret[1].row][ret[1].col] = game.machine_char
    /\ Count(game.board, game.machine_char) = 4

(* C16 as stated: whenever it is the machine's turn in the driver loop and *)
(* some Empty cell would complete a line of three machine marks,           *)
(* machine_won() is true immediately after machine_move.                   *)
C16_ImmediateWinTaken ==
    (MachineMoved /\ Threat(pre.board, pre.machine_char)) => machine_won(game)

(* C16 as amended: in such a state machine_move places the machine's mark  *)
(* on the first Empty cell in row-major order whose minimax score is +1;   *)
(* that cell need not complete a line, and after the move the machine has  *)
(* either won or wins whatever the human plays.                            *)
C16_WinningCellChosen ==
    (MachineMoved /\ Threat(pre.board, pre.machine_char))
    => /\ ret # None
       /\ LET k == 3 * ret[1].row + ret[1].col
              scores == CellScores(pre)
          IN  /\ <<k, 1>> \in scores
              /\ \A q \in scores : q[2] = 1 => k <= q[1]
       /\ game.board = [pre.board EXCEPT ![ret[1].row][ret[1].col] =
                                            pre.machine_char]
       /\ GameValue(game.board, game.player_char, game.player_char,
                    game.machine_char) = 1

(* The machine could complete a line and has moved without completing one. *)
C16_Witness ==
    /\ MachineMoved
    /\ Threat(pre.board, pre.machine_char)
    /\ ret # None
    /\ ~machine_won(game)
    /\ ~is_game_over(game)

(* C17: whenever it is the machine's turn in the driver loop, some line    *)
(* holds two human marks with its third cell Empty, and no Empty cell      *)
(* would complete a line of machine marks, machine_move places the         *)
(* machine's mark on the third cell of such a human line.                  *)
C17_ThreatBlocked ==
    (/\ MachineMoved
     /\ Threat(pre.board, pre.player_char)
     /\ ~Threat(pre.board, pre.machine_char))
    => /\ ret # None
       /\ game.board[ret[1].row][ret[1].col] = game.machine_char
       /\ \E line \in Lines :
              /\ <<ret[1].row, ret[1].col>> \in line
              /\ pre.board[ret[1].row][ret[1].col] = Empty
              /\ \A y \in line \ {<<ret[1].row, ret[1].col>>} :
                     pre.board[y[1]][y[2]] = pre.player_char

(* The machine has blocked the third cell of the middle row. *)
C17_Witness ==
    /\ MachineMoved
    /\ ~Threat(pre.board, pre.machine_char)
    /\ pre.board[1][0] = pre.player_char
    /\ pre.board[1][1] = pre.player_char
    /\ pre.board[1][2] = Empty
    /\ game.board[1][2] = game.machine_char

(* C18: in every state reachable through the driver loop the number of     *)
(* human marks minus the number of machine marks is 0 or 1; each time the  *)
(* loop guard is evaluated the two counts are equal, or the board is full  *)
(* with 5 human and 4 machine marks.                                       *)
C18_TurnAlternation ==
    LET humans == Count(game.board, game.player_char)
        machines == Count(game.board, game.machine_char)
    IN  /\ humans - machines \in {0, 1}
        /\ pc = "loop" =>
               \/ humans = machines
               \/ Full(game.board) /\ humans = 5 /\ machines = 4

(* The loop guard is evaluated on a full board, after machine_move found   *)
(* no move.                                                                *)
C18_Witness ==
    /\ MachineMoved
    /\ ret = None
    /\ Full(game.board)
    /\ Count(game.board, game.player_char) = 5
    /\ Count(game.board, game.machine_char) = 4

(* The human, whenever prompted, eventually supplies a move that is        *)
(* accepted.                                                               *)
PlayerAccepted == PlayerTurn /\ ret' = TRUE

(* machine_move, once called, returns to the loop, with the machine's mark *)
(* on some cell or with None.  From pc = "machine" the steps of the driver *)
(* loop that do this are the MachineTurn steps; the condition is written   *)
(* without the search so that it is decided from the two states.           *)
MachineMoveReturns ==
    /\ pc = "machine"
    /\ \E r \in {[self |-> game, ret |-> None]}
                 \cup {[self |-> do_move(game, m, game.machine_char).self,
                        ret |-> Some(m)] : m \in Moves} :
          /\ game' = r.self
          /\ ret' = r.ret
    /\ pc' = "loop"
    /\ call' = "machine_move"
    /\ arg' = << >>
    /\ pre' = game
    /\ UNCHANGED stack

(* The program is sequential: a step it can take, it takes. *)
SpecLive ==
    /\ Spec
    /\ WF_vars(PlayerAccepted)
    /\ WF_vars(MachineMoveReturns)
    /\ WF_vars(GameOver)

(* C19: provided the human, whenever prompted, eventually supplies a move  *)
(* that is accepted, every run of the driver loop reaches a state where    *)
(* is_game_over() is true and the loop exits, after at most 5 accepted     *)
(* human moves and at most 4 machine moves (each places one mark, and no   *)
(* mark is ever removed); once is_game_over() is true no further mark is   *)
(* placed.                                                                 *)
C19_GameEnds ==
    /\ <>(pc = "done" /\ is_game_over(game))
    /\ [](/\ Count(game.board, game.player_char) <= 5
          /\ Count(game.board, game.machine_char) <= 4)
    /\ [][is_game_over(game) => game'.board = game.board]_vars

(* The loop has exited on a full board after 5 human and 4 machine moves. *)
C19_Witness ==
    /\ pc = "done"
    /\ ret = "Draw"
    /\ Full(game.board)
    /\ Count(game.board, game.player_char) = 5
    /\ Count(game.board, game.machine_char) = 4

====
